---- MODULE Spec2Model ----
(***************************************************************************)
(* Candidate-extraction orchestration of oxide/crates/core/src/lib.rs:     *)
(* the DEBUG-gated tracing initialisation, the strategy byte decoding,     *)
(* the four IO x Parsing pipelines, the (parallel or sequential) byte      *)
(* source resolver, the (parallel or sequential) scan + merge, the         *)
(* conversion to owned strings and the final sort.                         *)
(*                                                                         *)
(* One process makes up to MaxCalls successive calls of the two public     *)
(* entry points.  Panics end a call; the process (and the global tracing   *)
(* subscriber it may have installed) lives on.                             *)
(***************************************************************************)
EXTENDS Integers, Sequences, FiniteSets, TLC

\* ---------------------------------------------------------------- bounds
MaxItems == 2
MaxCalls == 2
MaxRawLen == 4

\* ------------------------------------------------------- Option<T> values
NoneStr == [some |-> FALSE, val |-> ""]
NoneBytes == [some |-> FALSE, val |-> <<>>]
Some(v) == [some |-> TRUE, val |-> v]

Range(s) == {s[i] : i \in 1..Len(s)}

\* ------------------------------------------------------------ environment
\* Values the DEBUG environment variable takes, as Option<bytes of the text>:
\* not set, "0", "1" and "xtailwind".
DebugValues ==
  {NoneBytes, Some(<<48>>), Some(<<49>>),
   Some(<<120, 116, 97, 105, 108, 119, 105, 110, 100>>)}

\* The file system the calls read from: path -> contents, or an I/O error.
\* a.html holds "b a b"; raw.bin holds the bytes rawFile, which need not be
\* text; no other file exists.
VARIABLE rawFile
Paths == {"a.html", "missing.html"}
FileSystem(path) ==
  IF path = "a.html"
    THEN [ok |-> TRUE, bytes |-> <<98, 32, 97, 32, 98>>, err |-> ""]
  ELSE IF path = "raw.bin"
    THEN [ok |-> TRUE, bytes |-> rawFile, err |-> ""]
    ELSE [ok |-> FALSE, bytes |-> <<>>, err |-> "NotFound"]

fs_read(path) == FileSystem(path)

\* Inline texts callers pass (as the bytes of the String): "ab a".
InlineTexts == {<<97, 98, 32, 97>>}

\* struct ChangedContent { file, content, extension }
ChangedContent ==
  [file : {NoneStr} \cup {Some(p) : p \in Paths},
   content : {NoneBytes} \cup {Some(t) : t \in InlineTexts},
   extension : {"html"}]

\* The content items a caller passes: every shape of (file, content).
ItemPool == ChangedContent

SeqsUpTo(S, n) == UNION {[1..k -> S] : k \in 0..n}

\* Strategy bytes passed as `options`: the four valid ones, bytes with an
\* undefined pattern in either field, and a valid one with high bits set.
StrategyBytes == {5, 6, 9, 10, 0, 7, 13, 245}

\* ----------------------------------------------------------- init_tracing
\* matches!(std::env::var("DEBUG"), Ok(value) if value.eq("*") || value.eq("1")
\*          || value.eq("true") || value.contains("tailwind"))
\* std::env::var gives Err for a variable that is not set.  value is the text
\* of the variable as its bytes: "*" is <<42>>, "1" is <<49>>, "true" is
\* <<116, 114, 117, 101>>, and contains finds "tailwind" at any offset.
ContainsTailwind(value) ==
  \E i \in 1..(Len(value) - 7) :
    SubSeq(value, i, i + 7) = <<116, 97, 105, 108, 119, 105, 110, 100>>
DebugEnabled(value) ==
  /\ value.some
  /\ \/ value.val = <<42>>
     \/ value.val = <<49>>
     \/ value.val = <<116, 114, 117, 101>>
     \/ ContainsTailwind(value.val)

\* --------------------------------------------------------- strategy byte
\* item & 0b0011 and item & 0b1100 on a u8
IOBits_keep_bit4(item) == (item % 4) + 16 * ((item \div 16) % 2)
IOBits(item) == item % 4
ParsingBits(item) == ((item \div 4) % 4) * 4

IOFrom(item) ==
  CASE IOBits(item) = 1 -> "Sequential"
    [] IOBits(item) = 2 -> "Parallel"
    [] OTHER -> "unimplemented"

ParsingFrom_lenient(item) ==
  CASE ParsingBits(item) = 4 -> "Sequential"
    [] OTHER -> "Parallel"

ParsingFrom(item) ==
  CASE ParsingBits(item) = 4 -> "Sequential"
    [] ParsingBits(item) = 8 -> "Parallel"
    [] OTHER -> "unimplemented"

\* The match of parse_candidate_strings: (IO, Parsing) -> (read fn, parse fn)
SelectPipeline_all_parallel(io, parsing) ==
  [read |-> "read_all_files", parse |-> "parse_all_blobs"]

SelectPipeline(io, parsing) ==
  CASE io = "Sequential" /\ parsing = "Sequential" ->
         [read |-> "read_all_files_sync", parse |-> "parse_all_blobs_sync"]
    [] io = "Sequential" /\ parsing = "Parallel" ->
         [read |-> "read_all_files", parse |-> "parse_all_blobs_sync"]
    [] io = "Parallel" /\ parsing = "Sequential" ->
         [read |-> "read_all_files_sync", parse |-> "parse_all_blobs"]
    [] io = "Parallel" /\ parsing = "Parallel" ->
         [read |-> "read_all_files", parse |-> "parse_all_blobs"]

\* parse_candidate_strings_from_files: parse_all_blobs(read_all_files(..))
FromFilesPipeline_sync_parse == [read |-> "read_all_files", parse |-> "parse_all_blobs_sync"]
FromFilesPipeline == [read |-> "read_all_files", parse |-> "parse_all_blobs"]

\* ------------------------------------------------- byte source resolver
\* The closure mapped over the items by read_all_files / read_all_files_sync
ResolveItem_unwrap_or_default(c) ==
  CASE c.file.some /\ ~c.content.some ->
         [ok |-> TRUE, bytes |-> fs_read(c.file.val).bytes, err |-> ""]
    [] ~c.file.some /\ c.content.some ->
         [ok |-> TRUE, bytes |-> c.content.val, err |-> ""]
    [] OTHER -> [ok |-> TRUE, bytes |-> <<>>, err |-> ""]

ResolveItem(c) ==
  CASE c.file.some /\ ~c.content.some ->
         IF fs_read(c.file.val).ok
           THEN [ok |-> TRUE, bytes |-> fs_read(c.file.val).bytes, err |-> ""]
           ELSE [ok |-> FALSE, bytes |-> <<>>, err |-> fs_read(c.file.val).err]
    [] ~c.file.some /\ c.content.some ->
         [ok |-> TRUE, bytes |-> c.content.val, err |-> ""]
    [] OTHER -> [ok |-> TRUE, bytes |-> <<>>, err |-> ""]

\* The closure calls std::fs::read for the item
ReadsFile(c) == c.file.some /\ ~c.content.some

\* ----------------------------------------------------- candidate scanner
\* Extractor lives in crate::parser.  Its single pass is modelled from the
\* design's description.  Whitespace and quotes cut the buffer into runs; a
\* run is emitted as one candidate when it is structurally complete: it opens
\* at a legal start byte (identifier byte, -, !, [), every byte continues it,
\* its brackets are balanced and it does not end in a colon.  A run that is
\* malformed or unbalanced yields no candidate, whole or partial.  The
\* candidates of a buffer form a set.
IsWhitespace(b) == b \in {9, 10, 12, 13, 32}
IsQuote(b) == b \in {34, 39, 96}
IsDigit(b) == b >= 48 /\ b <= 57
IsCandidateByte(b) ==
  (b >= 97 /\ b <= 122) \/ (b >= 65 /\ b <= 90) \/ IsDigit(b)
    \/ b = 45 \/ b = 95

\* The scanner's state between two bytes: `start` is the cursor of the run in
\* progress (0: none), `depth` the nesting depth of [...] segments, `quote`
\* the quote open inside such a segment (0: none), `bang` whether the run
\* holds an importance marker, `colon` whether a variant is expected next,
\* `bad` whether a byte of the run could not continue it.
NoRun ==
  [start |-> 0, depth |-> 0, quote |-> 0, bang |-> FALSE, colon |-> FALSE, bad |-> FALSE]

\* The run ends at byte `last`: it is emitted only if structurally complete.
Emit(buf, last, run, found) ==
  IF run.start > 0 /\ ~run.bad /\ run.depth = 0 /\ ~run.colon
    THEN found \cup {SubSeq(buf, run.start, last)}
    ELSE found

\* A byte that would end the run at depth 0
IsTerminator(b, run) == IsWhitespace(b) \/ IsQuote(b) \/ (b = 33 /\ run.bang)

\* One left-to-right pass.  Inside brackets every byte but whitespace is
\* data, a ] or [ inside quotes included, and whitespace abandons the run.
\* Outside brackets: a colon extends the run (variant chain), a / followed by
\* a digit extends it (modifier), a first ! extends it (importance marker), a
\* backslash makes a terminator that follows it literal, and any other byte
\* that is not an identifier byte makes the run malformed.
RECURSIVE ScanFrom(_, _, _, _)
ScanFrom(buf, pos, run, found) ==
  IF pos > Len(buf) THEN Emit(buf, Len(buf), run, found)
  ELSE
    LET b == buf[pos]
        open == [run EXCEPT !.start = IF run.start > 0 THEN run.start ELSE pos,
                            !.colon = FALSE]
        broken == [open EXCEPT !.bad = TRUE]
    IN
      IF run.depth > 0
        THEN IF b = 92 /\ pos < Len(buf)
               THEN ScanFrom(buf, pos + 2, run, found)
             ELSE IF IsWhitespace(b)
               THEN ScanFrom(buf, pos + 1, NoRun, found)
             ELSE IF run.quote # 0
               THEN ScanFrom(buf, pos + 1,
                             IF b = run.quote THEN [run EXCEPT !.quote = 0] ELSE run,
                             found)
             ELSE IF IsQuote(b)
               THEN ScanFrom(buf, pos + 1, [run EXCEPT !.quote = b], found)
             ELSE IF b = 91
               THEN ScanFrom(buf, pos + 1, [run EXCEPT !.depth = run.depth + 1], found)
             ELSE IF b = 93
               THEN ScanFrom(buf, pos + 1, [run EXCEPT !.depth = run.depth - 1], found)
             ELSE ScanFrom(buf, pos + 1, run, found)
      ELSE IF b = 92 /\ pos < Len(buf) /\ IsTerminator(buf[pos + 1], run)
        THEN ScanFrom(buf, pos + 2, IF run.start > 0 THEN open ELSE broken, found)
      ELSE IF IsTerminator(b, run)
        THEN ScanFrom(buf, pos + 1, NoRun, Emit(buf, pos - 1, run, found))
      ELSE IF b = 33
        THEN ScanFrom(buf, pos + 1, [open EXCEPT !.bang = TRUE], found)
      ELSE IF b = 91
        THEN ScanFrom(buf, pos + 1, [open EXCEPT !.depth = 1], found)
      ELSE IF b = 58
        THEN ScanFrom(buf, pos + 1,
                      IF run.start > 0 /\ ~run.colon
                        THEN [run EXCEPT !.colon = TRUE] ELSE broken,
                      found)
      ELSE IF b = 47
        THEN ScanFrom(buf, pos + 1,
                      IF run.start > 0 /\ ~run.colon
                           /\ pos < Len(buf) /\ IsDigit(buf[pos + 1])
                        THEN run ELSE broken,
                      found)
      ELSE IF IsCandidateByte(b)
        THEN ScanFrom(buf, pos + 1, open, found)
        ELSE ScanFrom(buf, pos + 1, broken, found)

\* Extractor::unique(input, Default::default())
unique(buf) == ScanFrom(buf, 1, NoRun, {})

\* ------------------------------------------------------- merge and sort
\* |mut a, b| { a.extend(b); a } on hash sets
Extend_keep_left(a, b) == a
Extend_take_right(a, b) == b
Extend_first_nonempty(a, b) == IF a = {} THEN b ELSE a
Extend(a, b) == a \cup b

\* String::from_utf8_unchecked(s.to_vec()): the String owns exactly the bytes
from_utf8_unchecked(s) == [i \in 1..Len(s) |-> s[i]]

\* Ord for String: lexicographic comparison of the bytes
RECURSIVE StrLess(_, _)
StrLess(s, t) ==
  IF t = <<>> THEN FALSE
  ELSE IF s = <<>> THEN TRUE
  ELSE IF s[1] # t[1] THEN s[1] < t[1]
  ELSE StrLess(Tail(s), Tail(t))

\* insertion of x into an ascending sequence, after the elements not greater
RECURSIVE InsertSorted(_, _)
InsertSorted(x, s) ==
  IF s = <<>> THEN <<x>>
  ELSE IF StrLess(x, s[1]) THEN <<x>> \o s
  ELSE <<s[1]>> \o InsertSorted(x, Tail(s))

\* result.sort()
sort_skipped(v) == v
RECURSIVE sort(_)
sort(v) == IF v = <<>> THEN <<>> ELSE InsertSorted(v[Len(v)], sort(SubSeq(v, 1, Len(v) - 1)))

\* The orders in which into_iter() of a hash set can yield its elements
IterationOrders(S) ==
  {v \in [1..Cardinality(S) -> S] : \A i, j \in 1..Cardinality(S) : i # j => v[i] # v[j]}

\* buffers.iter().map(unique).fold(Default::default(), extend): the union of
\* the buffers' candidate sets, from the left.
RECURSIVE FoldUnique(_, _)
FoldUnique(blobs, a) ==
  IF blobs = <<>> THEN a
  ELSE FoldUnique(Tail(blobs), Extend(a, unique(blobs[1])))

\* ------------------------------------------------------------------ state
VARIABLES
  debugEnv,    \* value of the DEBUG environment variable
  subscriber,  \* a global tracing subscriber is installed in the process
  calls,       \* number of calls made so far
  pc,          \* position of the current call
  entry,       \* entry point of the current call
  input,       \* its content items
  options,     \* its strategy byte (parse_candidate_strings only)
  readFn,      \* the read function the call runs
  parseFn,     \* the parse function the call runs
  bufs,        \* per item: the buffer the read step produced
  readLog,     \* item indices in the order the resolver closure ran on them
  panics,      \* payloads of the read tasks that panicked (parallel read)
  parts,       \* parallel parse: the leaves / partial results of the reduction
  acc,         \* sequential parse: the fold accumulator; then the merged set
  scanLog,     \* buffer indices in the order Extractor::unique ran on them
  vec,         \* the collected Vec<String>
  outcome      \* what the call gave its caller

vars == <<rawFile, debugEnv, subscriber, calls, pc, entry, input, options, readFn, parseFn,
          bufs, readLog, panics, parts, acc, scanLog, vec, outcome>>

NoOutcome == [kind |-> "none", value |-> <<>>, msg |-> <<>>]
Returned(v) == [kind |-> "ok", value |-> v, msg |-> <<>>]
Panicked(m) == [kind |-> "panic", value |-> <<>>, msg |-> m]

\* Panic payloads
SubscriberPanic == <<"Unable to install global subscriber", "SetGlobalDefaultError">>
IOStrategyPanic == <<"not implemented", "Unknown IO strategy">>
ParsingStrategyPanic == <<"not implemented", "Unknown Parsing strategy">>
UnwrapPanic(err) == <<"called Result::unwrap on an Err value", err>>

\* parse_all_blobs_sync(read_all_files_sync(items)) as a function of the
\* items: the first item whose read fails, in input order, unwinds the call;
\* otherwise the buffers are folded, collected and sorted.
SequentialResult(items) ==
  LET failed == {i \in 1..Len(items) : ~ResolveItem(items[i]).ok}
  IN IF failed # {}
       THEN Panicked(UnwrapPanic(
              ResolveItem(items[CHOOSE i \in failed : \A j \in failed : i <= j]).err))
       ELSE Returned(sort(CHOOSE v \in IterationOrders(
              FoldUnique([i \in 1..Len(items) |-> ResolveItem(items[i]).bytes], {})) : TRUE))

N == Len(input)
Unread == [done |-> FALSE, bytes |-> <<>>]

Init ==
  /\ rawFile = <<>>
  /\ debugEnv \in DebugValues
  /\ subscriber = FALSE
  /\ calls = 0
  /\ pc = "idle"
  /\ entry = "none"
  /\ input = <<>>
  /\ options = 0
  /\ readFn = "none"
  /\ parseFn = "none"
  /\ bufs = <<>>
  /\ readLog = <<>>
  /\ panics = {}
  /\ parts = <<>>
  /\ acc = {}
  /\ scanLog = <<>>
  /\ vec = <<>>
  /\ outcome = NoOutcome

\* A caller enters one of the two public functions with fresh locals.
Enter(e, items, opts) ==
  /\ calls' = calls + 1
  /\ pc' = "init_tracing"
  /\ entry' = e
  /\ input' = items
  /\ options' = opts
  /\ readFn' = "none"
  /\ parseFn' = "none"
  /\ bufs' = [i \in 1..Len(items) |-> Unread]
  /\ readLog' = <<>>
  /\ panics' = {}
  /\ parts' = <<>>
  /\ acc' = {}
  /\ scanLog' = <<>>
  /\ vec' = <<>>
  /\ outcome' = NoOutcome
  /\ UNCHANGED <<rawFile, debugEnv, subscriber>>

parse_candidate_strings_from_files ==
  /\ pc = "idle"
  /\ calls < MaxCalls
  /\ \E items \in SeqsUpTo(ItemPool, MaxItems) : Enter("from_files", items, 0)

parse_candidate_strings ==
  /\ pc = "idle"
  /\ calls < MaxCalls
  /\ \E items \in SeqsUpTo(ItemPool, MaxItems) : \E opts \in StrategyBytes :
       Enter("with_options", items, opts)

\* The caller takes the outcome; the locals of the call are dropped.
Leave ==
  /\ pc = "done"
  /\ pc' = "idle"
  /\ entry' = "none"
  /\ input' = <<>>
  /\ options' = 0
  /\ readFn' = "none"
  /\ parseFn' = "none"
  /\ bufs' = <<>>
  /\ readLog' = <<>>
  /\ panics' = {}
  /\ parts' = <<>>
  /\ acc' = {}
  /\ scanLog' = <<>>
  /\ vec' = <<>>
  /\ outcome' = NoOutcome
  /\ UNCHANGED <<rawFile, debugEnv, subscriber, calls>>

\* The call unwinds with a panic.
Unwind(m) ==
  /\ pc' = "done"
  /\ outcome' = Panicked(m)

\* init_tracing(): .init() panics when a global subscriber is already set.
init_tracing ==
  /\ pc = "init_tracing"
  /\ IF DebugEnabled(debugEnv)
       THEN IF subscriber
              THEN /\ Unwind(SubscriberPanic)
                   /\ UNCHANGED <<subscriber, readFn, parseFn>>
              ELSE /\ subscriber' = TRUE
                   /\ UNCHANGED outcome
                   /\ IF entry = "from_files"
                        THEN /\ pc' = "read"
                             /\ readFn' = FromFilesPipeline.read
                             /\ parseFn' = FromFilesPipeline.parse
                        ELSE /\ pc' = "dispatch"
                             /\ UNCHANGED <<readFn, parseFn>>
       ELSE /\ UNCHANGED <<subscriber, outcome>>
            /\ IF entry = "from_files"
                 THEN /\ pc' = "read"
                      /\ readFn' = FromFilesPipeline.read
                      /\ parseFn' = FromFilesPipeline.parse
                 ELSE /\ pc' = "dispatch"
                      /\ UNCHANGED <<readFn, parseFn>>
  /\ UNCHANGED <<rawFile, debugEnv, calls, entry, input, options, bufs, readLog, panics,
                 parts, acc, scanLog, vec>>

\* match (IO::from(options), Parsing::from(options)) { ... }
Dispatch ==
  /\ pc = "dispatch"
  /\ IF IOFrom(options) = "unimplemented"
       THEN Unwind(IOStrategyPanic) /\ UNCHANGED <<readFn, parseFn>>
       ELSE IF ParsingFrom(options) = "unimplemented"
         THEN Unwind(ParsingStrategyPanic) /\ UNCHANGED <<readFn, parseFn>>
         ELSE /\ readFn' = SelectPipeline(IOFrom(options), ParsingFrom(options)).read
              /\ parseFn' = SelectPipeline(IOFrom(options), ParsingFrom(options)).parse
              /\ pc' = "read"
              /\ UNCHANGED outcome
  /\ UNCHANGED <<rawFile, debugEnv, subscriber, calls, entry, input, options, bufs, readLog,
                 panics, parts, acc, scanLog, vec>>

\* read_all_files_sync: into_iter().map(..) runs the closure on the next item;
\* unwrap() on a failed read unwinds at once.
ReadSync ==
  /\ pc = "read"
  /\ readFn = "read_all_files_sync"
  /\ Len(readLog) < N
  /\ LET i == Len(readLog) + 1
         r == ResolveItem(input[i])
     IN /\ readLog' = Append(readLog, i)
        /\ IF r.ok
             THEN /\ bufs' = [bufs EXCEPT ![i] = [done |-> TRUE, bytes |-> r.bytes]]
                  /\ UNCHANGED <<pc, outcome>>
             ELSE /\ Unwind(UnwrapPanic(r.err))
                  /\ UNCHANGED bufs
  /\ UNCHANGED <<rawFile, debugEnv, subscriber, calls, entry, input, options, readFn, parseFn,
                 panics, parts, acc, scanLog, vec>>

\* read_all_files: into_par_iter().map(..): a pool task runs the closure on
\* any item not yet taken; a panic is kept until the join.
ReadPar_completion_order(i) ==
  /\ pc = "read"
  /\ readFn = "read_all_files"
  /\ i \in 1..N
  /\ i \notin Range(readLog)
  /\ LET r == ResolveItem(input[i])
     IN /\ readLog' = Append(readLog, i)
        /\ IF r.ok
             THEN /\ bufs' = [bufs EXCEPT ![Len(readLog) + 1] =
                                [done |-> TRUE, bytes |-> r.bytes]]
                  /\ UNCHANGED panics
             ELSE /\ panics' = panics \cup {UnwrapPanic(r.err)}
                  /\ UNCHANGED bufs
  /\ UNCHANGED <<rawFile, debugEnv, subscriber, calls, pc, entry, input, options, readFn,
                 parseFn, parts, acc, scanLog, vec, outcome>>

ReadPar(i) ==
  /\ pc = "read"
  /\ readFn = "read_all_files"
  /\ i \in 1..N
  /\ i \notin Range(readLog)
  /\ LET r == ResolveItem(input[i])
     IN /\ readLog' = Append(readLog, i)
        /\ IF r.ok
             THEN /\ bufs' = [bufs EXCEPT ![i] = [done |-> TRUE, bytes |-> r.bytes]]
                  /\ UNCHANGED panics
             ELSE /\ panics' = panics \cup {UnwrapPanic(r.err)}
                  /\ UNCHANGED bufs
  /\ UNCHANGED <<rawFile, debugEnv, subscriber, calls, pc, entry, input, options, readFn, parseFn,
                 parts, acc, scanLog, vec, outcome>>

\* The pool resumes a task's panic in the caller; tasks not yet started are
\* dropped with the iterator.
ReadParPanic ==
  /\ pc = "read"
  /\ readFn = "read_all_files"
  /\ \E m \in panics : Unwind(m)
  /\ UNCHANGED <<rawFile, debugEnv, subscriber, calls, entry, input, options, readFn, parseFn,
                 bufs, readLog, panics, parts, acc, scanLog, vec>>

\* .collect(): every item has its buffer, at its own index.
ReadCollect_pipelined ==
  /\ pc = "read"
  /\ \E i \in 1..N : bufs[i].done
  /\ pc' = "parse"
  /\ UNCHANGED <<rawFile, debugEnv, subscriber, calls, entry, input, options, readFn, parseFn,
                 bufs, readLog, panics, parts, acc, scanLog, vec, outcome>>

ReadCollect ==
  /\ pc = "read"
  /\ \A i \in 1..N : bufs[i].done
  /\ pc' = "parse"
  /\ UNCHANGED <<rawFile, debugEnv, subscriber, calls, entry, input, options, readFn, parseFn,
                 bufs, readLog, panics, parts, acc, scanLog, vec, outcome>>

\* parse_all_blobs_sync: iter().map(unique).fold(FxHashSet::default(), extend)
ScanSync ==
  /\ pc = "parse"
  /\ parseFn = "parse_all_blobs_sync"
  /\ Len(scanLog) < N
  /\ LET i == Len(scanLog) + 1
     IN /\ scanLog' = Append(scanLog, i)
        /\ acc' = Extend(acc, unique(bufs[i].bytes))
  /\ UNCHANGED <<rawFile, debugEnv, subscriber, calls, pc, entry, input, options, readFn, parseFn,
                 bufs, readLog, panics, parts, vec, outcome>>

FoldDone ==
  /\ pc = "parse"
  /\ parseFn = "parse_all_blobs_sync"
  /\ Len(scanLog) = N
  /\ pc' = "collect"
  /\ UNCHANGED <<rawFile, debugEnv, subscriber, calls, entry, input, options, readFn, parseFn,
                 bufs, readLog, panics, parts, acc, scanLog, vec, outcome>>

\* parse_all_blobs: par_iter() splits the buffers into runs of neighbours, one
\* leaf per run (one empty leaf for no buffers); each leaf starts from the
\* identity Default::default().
Leaves(cuts) ==
  LET starts == {1} \cup {c + 1 : c \in cuts}
      EndOf(lo) == IF \E c \in cuts : c >= lo
                     THEN CHOOSE c \in cuts : c >= lo /\ \A d \in cuts : d >= lo => c <= d
                     ELSE N
      RECURSIVE Build(_)
      Build(lo) ==
        IF lo > N /\ lo > 1 THEN <<>>
        ELSE <<[lo |-> lo, hi |-> EndOf(lo), next |-> lo, set |-> {}]>>
               \o (IF EndOf(lo) >= N THEN <<>> ELSE Build(EndOf(lo) + 1))
  IN Build(1)

Split ==
  /\ pc = "parse"
  /\ parseFn = "parse_all_blobs"
  /\ parts = <<>>
  /\ \E cuts \in SUBSET (1..(N - 1)) : parts' = Leaves(cuts)
  /\ UNCHANGED <<rawFile, debugEnv, subscriber, calls, pc, entry, input, options, readFn, parseFn,
                 bufs, readLog, panics, acc, scanLog, vec, outcome>>

Finished(p) == p.next > p.hi

\* A leaf maps its next buffer through Extractor::unique and folds it in.
FoldLeaf(k) ==
  /\ pc = "parse"
  /\ parseFn = "parse_all_blobs"
  /\ k \in 1..Len(parts)
  /\ ~Finished(parts[k])
  /\ LET p == parts[k]
     IN /\ parts' = [parts EXCEPT ![k] =
                       [p EXCEPT !.next = p.next + 1,
                                 !.set = Extend(p.set, unique(bufs[p.next].bytes))]]
        /\ scanLog' = Append(scanLog, p.next)
  /\ UNCHANGED <<rawFile, debugEnv, subscriber, calls, pc, entry, input, options, readFn, parseFn,
                 bufs, readLog, panics, acc, vec, outcome>>

\* reduce: two finished neighbours are combined, left operand first.
Reduce_waits_for_collect(k) ==
  /\ pc = "collect"
  /\ parseFn = "parse_all_blobs"
  /\ k \in 1..(Len(parts) - 1)
  /\ Finished(parts[k])
  /\ Finished(parts[k + 1])
  /\ LET a == parts[k]
         b == parts[k + 1]
         ab == [lo |-> a.lo, hi |-> b.hi, next |-> b.next, set |-> Extend(a.set, b.set)]
     IN parts' = SubSeq(parts, 1, k - 1) \o <<ab>> \o SubSeq(parts, k + 2, Len(parts))
  /\ UNCHANGED <<rawFile, debugEnv, subscriber, calls, pc, entry, input, options, readFn,
                 parseFn, bufs, readLog, panics, acc, scanLog, vec, outcome>>

Reduce(k) ==
  /\ pc = "parse"
  /\ parseFn = "parse_all_blobs"
  /\ k \in 1..(Len(parts) - 1)
  /\ Finished(parts[k])
  /\ Finished(parts[k + 1])
  /\ LET a == parts[k]
         b == parts[k + 1]
         ab == [lo |-> a.lo, hi |-> b.hi, next |-> b.next, set |-> Extend(a.set, b.set)]
     IN parts' = SubSeq(parts, 1, k - 1) \o <<ab>> \o SubSeq(parts, k + 2, Len(parts))
  /\ UNCHANGED <<rawFile, debugEnv, subscriber, calls, pc, entry, input, options, readFn, parseFn,
                 bufs, readLog, panics, acc, scanLog, vec, outcome>>

ReduceDone ==
  /\ pc = "parse"
  /\ parseFn = "parse_all_blobs"
  /\ Len(parts) = 1
  /\ Finished(parts[1])
  /\ acc' = parts[1].set
  /\ pc' = "collect"
  /\ UNCHANGED <<rawFile, debugEnv, subscriber, calls, entry, input, options, readFn, parseFn,
                 bufs, readLog, panics, parts, scanLog, vec, outcome>>

\* .into_iter().map(from_utf8_unchecked).collect(): hash-set iteration order
Collect ==
  /\ pc = "collect"
  /\ \E v \in IterationOrders(acc) :
       vec' = [i \in 1..Len(v) |-> from_utf8_unchecked(v[i])]
  /\ pc' = "sort"
  /\ UNCHANGED <<rawFile, debugEnv, subscriber, calls, entry, input, options, readFn, parseFn,
                 bufs, readLog, panics, parts, acc, scanLog, outcome>>

\* result.sort(); result
SortAndReturn ==
  /\ pc = "sort"
  /\ vec' = sort(vec)
  /\ outcome' = Returned(sort(vec))
  /\ pc' = "done"
  /\ UNCHANGED <<rawFile, debugEnv, subscriber, calls, entry, input, options, readFn, parseFn,
                 bufs, readLog, panics, parts, acc, scanLog>>

Next ==
  \/ parse_candidate_strings_from_files
  \/ parse_candidate_strings
  \/ init_tracing
  \/ Dispatch
  \/ ReadSync
  \/ \E i \in 1..MaxItems : ReadPar(i)
  \/ ReadParPanic
  \/ ReadCollect
  \/ ScanSync
  \/ FoldDone
  \/ Split
  \/ \E k \in 1..MaxItems : FoldLeaf(k)
  \/ \E k \in 1..MaxItems : Reduce(k)
  \/ ReduceDone
  \/ Collect
  \/ SortAndReturn
  \/ Leave

Spec == Init /\ [][Next]_vars

\* The steps of a running call: those of the calling thread and of the pool's
\* tasks.  The thread and the pool's workers keep running what is runnable;
\* callers are free to make no further call.
CallStep ==
  \/ init_tracing
  \/ Dispatch
  \/ ReadSync
  \/ \E i \in 1..MaxItems : ReadPar(i)
  \/ ReadParPanic
  \/ ReadCollect
  \/ ScanSync
  \/ FoldDone
  \/ Split
  \/ \E k \in 1..MaxItems : FoldLeaf(k)
  \/ \E k \in 1..MaxItems : Reduce(k)
  \/ ReduceDone
  \/ Collect
  \/ SortAndReturn

\* Callers that keep to the data model: every item has exactly one of file
\* and content.
OneFieldItems == {c \in ItemPool : c.file.some # c.content.some}

parse_candidate_strings_from_files_one_field ==
  /\ pc = "idle"
  /\ calls < MaxCalls
  /\ \E items \in SeqsUpTo(OneFieldItems, MaxItems) : Enter("from_files", items, 0)

parse_candidate_strings_one_field ==
  /\ pc = "idle"
  /\ calls < MaxCalls
  /\ \E items \in SeqsUpTo(OneFieldItems, MaxItems) : \E opts \in StrategyBytes :
       Enter("with_options", items, opts)

FairNext ==
  \/ parse_candidate_strings_from_files_one_field
  \/ parse_candidate_strings_one_field
  \/ CallStep
  \/ Leave

FairSpec == Init /\ [][FairNext]_vars /\ WF_vars(CallStep)

\* ------------------------------------------------ calls on raw file bytes
\* Well-formed UTF-8, the invariant of String and the precondition of
\* from_utf8_unchecked: the lead byte fixes the number of continuation bytes
\* (0x80..0xBF), and the first of them is narrowed after 0xE0 (no overlong
\* form), 0xED (no surrogate), 0xF0 (no overlong form) and 0xF4 (at most
\* U+10FFFF).
RECURSIVE IsUtf8(_)
IsUtf8(s) ==
  IF s = <<>> THEN TRUE
  ELSE LET b == s[1]
           n == IF b < 128 THEN 0
                ELSE IF b >= 194 /\ b <= 223 THEN 1
                ELSE IF b >= 224 /\ b <= 239 THEN 2
                ELSE IF b >= 240 /\ b <= 244 THEN 3
                ELSE 0 - 1
           lo == IF b = 224 THEN 160 ELSE IF b = 240 THEN 144 ELSE 128
           hi == IF b = 237 THEN 159 ELSE IF b = 244 THEN 143 ELSE 191
       IN /\ n >= 0
          /\ Len(s) > n
          /\ n >= 1 => s[2] >= lo /\ s[2] <= hi
          /\ \A k \in 3..(n + 1) : s[k] >= 128 /\ s[k] <= 191
          /\ IsUtf8(SubSeq(s, n + 2, Len(s)))

\* Bytes of the files and texts scanned: space, a, colon, [, ], and the two
\* bytes 0xC3 0xA9 of a two-byte character.
RawBytes == {32, 97, 58, 91, 93, 195, 169}
RawBuffers == SeqsUpTo(RawBytes, MaxRawLen)

\* A caller passes raw.bin as a file, or (a String being UTF-8) the same
\* bytes as inline text when they are text.
RawItems ==
  {[file |-> Some("raw.bin"), content |-> NoneBytes, extension |-> "html"]}
    \cup (IF IsUtf8(rawFile)
            THEN {[file |-> NoneStr, content |-> Some(rawFile), extension |-> "html"]}
            ELSE {})

RawInit ==
  /\ rawFile \in RawBuffers
  /\ debugEnv = NoneBytes
  /\ subscriber = FALSE
  /\ calls = 0
  /\ pc = "idle"
  /\ entry = "none"
  /\ input = <<>>
  /\ options = 0
  /\ readFn = "none"
  /\ parseFn = "none"
  /\ bufs = <<>>
  /\ readLog = <<>>
  /\ panics = {}
  /\ parts = <<>>
  /\ acc = {}
  /\ scanLog = <<>>
  /\ vec = <<>>
  /\ outcome = NoOutcome

\* parse_candidate_strings_from_files on one such item
FromFilesOnRaw ==
  /\ pc = "idle"
  /\ calls = 0
  /\ \E c \in RawItems : Enter("from_files", <<c>>, 0)

\* parse_candidate_strings on one such item, both axes sequential
WithOptionsOnRaw ==
  /\ pc = "idle"
  /\ calls = 0
  /\ \E c \in RawItems : Enter("with_options", <<c>>, 5)

RawNext ==
  \/ FromFilesOnRaw
  \/ WithOptionsOnRaw
  \/ init_tracing
  \/ Dispatch
  \/ ReadSync
  \/ \E i \in 1..MaxItems : ReadPar(i)
  \/ ReadCollect
  \/ ScanSync
  \/ FoldDone
  \/ Split
  \/ \E k \in 1..MaxItems : FoldLeaf(k)
  \/ ReduceDone
  \/ Collect
  \/ SortAndReturn

RawSpec == RawInit /\ [][RawNext]_vars

\* =================================================================== claims
\* Vocabulary of the claims, stated on the inputs of the call.
ValidStrategies == {5, 6, 9, 10}
FieldsDefined(b) == (b % 4) \in {1, 2} /\ ((b \div 4) % 4) \in {1, 2}
Neither(c) == ~c.file.some /\ ~c.content.some
Unreadable(c) == c.file.some /\ ~c.content.some /\ ~FileSystem(c.file.val).ok
BytesOf(c) ==
  IF c.file.some /\ ~c.content.some THEN FileSystem(c.file.val).bytes
  ELSE IF c.content.some /\ ~c.file.some THEN c.content.val
  ELSE <<>>
CandidatesOf(items) == UNION {unique(BytesOf(items[i])) : i \in 1..Len(items)}
Ascending(v) == \A i, j \in 1..Len(v) : i < j => StrLess(v[i], v[j])
\* the one ascending sequence of the distinct candidates of the items
ReferenceResult(items) ==
  CHOOSE v \in IterationOrders(CandidatesOf(items)) : Ascending(v)
InOrder(log) == \A i \in 1..Len(log) : log[i] = i
Done == pc = "done"
ReturnedOk == pc = "done" /\ outcome.kind = "ok"

\* C1: every call of parse_candidate_strings with one of the four valid
\* strategy bytes that returns, returns the one ascending sequence of the
\* distinct candidates of its items, whatever strategy was chosen and in
\* whatever order the read tasks, scan tasks and reduction steps ran.
C1_StrategyIndependence ==
  (ReturnedOk /\ entry = "with_options" /\ options \in ValidStrategies)
    => outcome.value = ReferenceResult(input)

\* a parallel call returned three candidates from two buffers that share one,
\* having read and scanned the second item before the first
C1_Witness ==
  /\ ReturnedOk /\ entry = "with_options" /\ options = 10
  /\ readLog = <<2, 1>> /\ scanLog = <<2, 1>> /\ Len(outcome.value) = 3

\* C2: the sequence parse_all_blobs and parse_all_blobs_sync return has no two
\* equal strings and is sorted ascending by byte value.
C2_SortedDistinct ==
  ReturnedOk =>
    /\ \A i, j \in 1..Len(outcome.value) : i # j => outcome.value[i] # outcome.value[j]
    /\ \A i, j \in 1..Len(outcome.value) :
         i < j => ~StrLess(outcome.value[j], outcome.value[i])

\* the same file was given twice (its candidate b occurs twice in the
\* buffer), and its two candidates were returned once each
C2_Witness ==
  /\ ReturnedOk /\ Len(input) = 2 /\ input[1] = input[2]
  /\ input[1].file = Some("a.html") /\ ~input[1].content.some
  /\ Cardinality(acc) = 2 /\ Len(outcome.value) = 2
  /\ parseFn \in {"parse_all_blobs", "parse_all_blobs_sync"}

\* C3: bits 0-1 of the strategy byte alone select how the items are read:
\* 0b01 reads them in input order one at a time (read_all_files_sync),
\* 0b10 reads them concurrently (read_all_files).
C3_IOBitsSelectRead ==
  (entry = "with_options" /\ readFn # "none") =>
    /\ (options % 4 = 1) => (readFn = "read_all_files_sync" /\ InOrder(readLog))
    /\ (options % 4 = 2) => readFn = "read_all_files"

\* C4: bits 2-3 of the strategy byte alone select how the buffers are scanned:
\* 0b0100 scans them in order with a running accumulator
\* (parse_all_blobs_sync), 0b1000 scans them concurrently and merges by a
\* parallel reduction (parse_all_blobs).
C4_ParsingBitsSelectScan ==
  (entry = "with_options" /\ parseFn # "none") =>
    /\ ((options \div 4) % 4 = 1) =>
         (parseFn = "parse_all_blobs_sync" /\ InOrder(scanLog) /\ parts = <<>>)
    /\ ((options \div 4) % 4 = 2) => parseFn = "parse_all_blobs"

\* C5: a strategy byte with 0b00 or 0b11 in either field makes
\* parse_candidate_strings fail, and no item is read in that call.
C5_ConfigErrorBeforeIO ==
  (entry = "with_options" /\ ~FieldsDefined(options)) =>
    /\ readLog = <<>>
    /\ \A i \in 1..Len(bufs) : ~bufs[i].done
    /\ pc \in {"init_tracing", "dispatch", "done"}
    /\ Done => outcome.kind = "panic"

\* a call with a defined IO field and an undefined Parsing field, given a file
\* to read, ended in the Parsing configuration error
C5_Witness ==
  /\ Done /\ entry = "with_options" /\ options = 13
  /\ \E i \in 1..Len(input) : input[i].file.some /\ ~input[i].content.some
  /\ outcome = Panicked(ParsingStrategyPanic)

\* C6: if an item's file cannot be read (the item has a file and no inline
\* content, and reading the file fails), the call fails: it returns no
\* sequence, under every strategy and wherever the item stands, and no buffer
\* is scanned.
C6_ReadFailureFailsCall ==
  (\E i \in 1..Len(input) : Unreadable(input[i])) =>
    /\ outcome.kind # "ok"
    /\ scanLog = <<>> /\ parts = <<>> /\ acc = {} /\ vec = <<>>
    /\ pc \notin {"parse", "collect", "sort"}
    /\ Done => outcome.kind = "panic"

\* the unreadable item stood last, a readable item with candidates had been
\* read before it failed, and the call ended with the read's panic
C6_Witness ==
  /\ Done /\ Len(input) = 2 /\ Unreadable(input[2])
  /\ bufs[1].done /\ unique(bufs[1].bytes) # {}
  /\ outcome = Panicked(UnwrapPanic("NotFound"))

\* C7: a file-read failure reaches the caller as a typed error value that
\* names the path of the file that could not be read, and is never replaced
\* by an empty or default buffer.
C7_TypedErrorNamesPath ==
  (Done /\ \E i \in Range(readLog) : Unreadable(input[i])) =>
    /\ outcome.kind = "error"
    /\ \E i \in Range(readLog) :
         Unreadable(input[i]) /\ input[i].file.val \in Range(outcome.msg)
    /\ \A i \in Range(readLog) : Unreadable(input[i]) => ~bufs[i].done

\* C8: under every valid strategy and through
\* parse_candidate_strings_from_files an empty list yields the empty
\* sequence, and an item with neither file nor content does not make the call
\* fail and leaves the result what it is for the list without that item.
WithoutNeither(items) == SelectSeq(items, LAMBDA c : ~Neither(c))
C8_EmptyAndNeither ==
  (Done /\ (entry = "from_files" \/ options \in ValidStrategies)) =>
    /\ input = <<>> => outcome = Returned(<<>>)
    /\ IF \E i \in 1..Len(WithoutNeither(input)) : Unreadable(WithoutNeither(input)[i])
         THEN outcome.kind = "panic"
         ELSE outcome = Returned(ReferenceResult(WithoutNeither(input)))

\* C9: the outcome of every call (the returned sequence, or failure) is what
\* it is with tracing disabled: a function of the items and the strategy byte.
C9_OutcomeIndependentOfDebug ==
  Done =>
    IF (entry = "with_options" /\ ~FieldsDefined(options))
         \/ (\E i \in 1..Len(input) : Unreadable(input[i]))
      THEN outcome.kind = "panic"
      ELSE outcome = Returned(ReferenceResult(input))

\* C10: parse_candidate_strings_from_files runs the pipeline that
\* parse_candidate_strings selects for the strategy byte 0b1010, and what it
\* returns is the sequence that call returns (the ascending sequence of the
\* distinct candidates, C1).
C10_FromFilesIsParallelParallel ==
  (entry = "from_files" /\ readFn # "none") =>
    /\ readFn = SelectPipeline(IOFrom(10), ParsingFrom(10)).read
    /\ parseFn = SelectPipeline(IOFrom(10), ParsingFrom(10)).parse
    /\ ReturnedOk => outcome.value = ReferenceResult(input)

\* the fixed-strategy entry point returned three candidates of two items,
\* read and scanned by pool tasks out of input order and merged by a reduction
C10_Witness ==
  /\ ReturnedOk /\ entry = "from_files" /\ Len(outcome.value) = 3
  /\ readLog = <<2, 1>> /\ scanLog = <<2, 1>> /\ Len(parts) = 1 /\ parts[1].lo = 1
  /\ parts[1].hi = 2

\* C11: every byte range converted to a String by from_utf8_unchecked is
\* valid UTF-8, its first and last byte being below 0x80, for every buffer
\* the resolver produces, inline text and raw file bytes alike.
C11_ConvertedRangesAreUtf8 ==
  \A i \in 1..Len(vec) :
    /\ vec[i] # <<>>
    /\ vec[i][1] < 128
    /\ vec[i][Len(vec[i])] < 128
    /\ IsUtf8(vec[i])

\* C12: within a call no buffer is scanned before every item has been read
\* and collected, and the strings are not collected or sorted before every
\* buffer has been scanned and the partial sets merged into one.
C12_ReadsThenScansThenSort ==
  /\ (scanLog # <<>> \/ parts # <<>> \/ pc \in {"parse", "collect", "sort"})
       => (Len(readLog) = N /\ \A i \in 1..N : bufs[i].done)
  /\ (vec # <<>> \/ pc \in {"collect", "sort"} \/ ReturnedOk)
       => /\ Len(scanLog) = N
          /\ parseFn = "parse_all_blobs"
               => (Len(parts) = 1 /\ Finished(parts[1]) /\ parts[1].set = acc)

\* the first scan of a call has just run (on the second buffer), both items
\* having been read before, the second one first
C12_Witness ==
  /\ pc = "parse" /\ N = 2 /\ readLog = <<2, 1>> /\ scanLog = <<2>>
  /\ unique(bufs[2].bytes) # {}

\* C13: the merged set is exactly the union of the per-buffer unique sets: at
\* every point of the parallel reduction (whatever the leaves and the order of
\* the combinations) and of the left fold a partial result is the union of
\* the sets of the buffers it covers, and the collected strings are the
\* candidates of all buffers, each exactly once.
ScannedUnion(S) == UNION {unique(bufs[i].bytes) : i \in S}
C13_MergeIsUnion ==
  /\ \A k \in 1..Len(parts) :
       parts[k].set = ScannedUnion(parts[k].lo..(parts[k].next - 1))
  /\ (pc = "parse" /\ parseFn = "parse_all_blobs_sync")
       => acc = ScannedUnion(1..Len(scanLog))
  /\ (pc \in {"collect", "sort"} \/ ReturnedOk) => acc = ScannedUnion(1..N)
  /\ (pc = "sort" \/ ReturnedOk)
       => (Range(vec) = acc /\ Len(vec) = Cardinality(acc))

\* two leaves scanned out of order were combined into a set of three
\* candidates, one of which occurs in both buffers
C13_Witness ==
  /\ pc = "collect" /\ parseFn = "parse_all_blobs" /\ N = 2 /\ scanLog = <<2, 1>>
  /\ unique(bufs[1].bytes) \cap unique(bufs[2].bytes) # {}
  /\ Cardinality(acc) = 3

\* C14: the buffer produced for an item is the file's contents if a file path
\* is set, the inline text's bytes if inline text is set, and empty only if
\* neither is set.
C14_BufferFollowsItem ==
  \A i \in 1..Len(bufs) :
    bufs[i].done =>
      bufs[i].bytes = (IF input[i].file.some THEN FileSystem(input[i].file.val).bytes
                       ELSE IF input[i].content.some THEN input[i].content.val
                       ELSE <<>>)

\* C15: with the strategy byte 0b0101 neither step runs on the pool: the items
\* are read and the buffers scanned one at a time in input order; with each
\* of 0b0110, 0b1001, 0b1010 at least one step is the pool's.
C15_PoolOnlyWhenParallel ==
  (entry = "with_options" /\ readFn # "none") =>
    /\ options = 5 =>
         /\ readFn = "read_all_files_sync" /\ parseFn = "parse_all_blobs_sync"
         /\ InOrder(readLog) /\ InOrder(scanLog)
         /\ parts = <<>> /\ panics = {}
    /\ options \in {6, 9, 10} =>
         (readFn = "read_all_files" \/ parseFn = "parse_all_blobs")

\* a call with 0b0101 returned after reading and scanning two items in order
C15_Witness ==
  /\ ReturnedOk /\ options = 5 /\ entry = "with_options" /\ N = 2
  /\ readLog = <<1, 2>> /\ scanLog = <<1, 2>> /\ Len(outcome.value) = 3

\* C17: read_all_files and read_all_files_sync give the same buffers: buffer
\* i is what the resolver closure makes of item i, whatever order the read
\* tasks ran in.
C17_BuffersInInputOrder ==
  /\ \A i \in 1..Len(bufs) : bufs[i].done => bufs[i].bytes = ResolveItem(input[i]).bytes
  /\ (pc \in {"parse", "collect", "sort"} \/ ReturnedOk)
       => bufs = [i \in 1..N |-> [done |-> TRUE, bytes |-> ResolveItem(input[i]).bytes]]

\* the pool read the second item before the first, and the two buffers differ
C17_Witness ==
  /\ pc = "parse" /\ readFn = "read_all_files" /\ N = 2 /\ readLog = <<2, 1>>
  /\ bufs[1].bytes # bufs[2].bytes /\ bufs[1].bytes # <<>> /\ bufs[2].bytes # <<>>

\* C18: the sequence a call returns is the one the sequential pipeline gives
\* for every permutation of its items.
PermutationsOf(items) ==
  {[i \in 1..Len(items) |-> items[f[i]]] :
     f \in {g \in [1..Len(items) -> 1..Len(items)] :
              \A i, j \in 1..Len(items) : i # j => g[i] # g[j]}}
C18_OrderOfItemsIrrelevant ==
  ReturnedOk => \A p \in PermutationsOf(input) : SequentialResult(p) = outcome

\* a call returned three candidates of two items whose buffers differ
C18_Witness ==
  /\ ReturnedOk /\ N = 2 /\ bufs[1].bytes # bufs[2].bytes
  /\ unique(bufs[1].bytes) # unique(bufs[2].bytes)
  /\ unique(bufs[1].bytes) # {} /\ unique(bufs[2].bytes) # {}
  /\ Len(outcome.value) = 3

\* C19: bits 4-7 of the strategy byte are ignored: the call runs the pipeline
\* of the byte with those bits cleared and is a configuration error exactly
\* when that byte is; 0b1111_0101 runs the sequential read and the sequential
\* scan.
C19_HighBitsIgnored ==
  entry = "with_options" =>
    /\ readFn # "none" =>
         /\ FieldsDefined(options % 16)
         /\ readFn = SelectPipeline(IOFrom(options % 16), ParsingFrom(options % 16)).read
         /\ parseFn = SelectPipeline(IOFrom(options % 16), ParsingFrom(options % 16)).parse
    /\ (Done /\ ~FieldsDefined(options % 16)) =>
         outcome.msg \in {IOStrategyPanic, ParsingStrategyPanic, SubscriberPanic}
    /\ (Done /\ FieldsDefined(options % 16)) =>
         outcome.msg \notin {IOStrategyPanic, ParsingStrategyPanic}
    /\ (options = 245 /\ readFn # "none") =>
         (readFn = "read_all_files_sync" /\ parseFn = "parse_all_blobs_sync")

\* a call with 0b1111_0101 returned candidates
C19_Witness ==
  /\ ReturnedOk /\ entry = "with_options" /\ options = 245
  /\ InOrder(readLog) /\ N = 2 /\ Len(outcome.value) = 3

\* C16: every call eventually ends, by returning or by a panic; no call stays
\* at the read join or at the scan/merge join for ever; and a read task or a
\* leaf that has work left can always run, whatever the other tasks did: tasks
\* wait for each other only in the collect of the reads and in the reduction.
C16_CallsEnd ==
  /\ (pc = "init_tracing") ~> (pc = "done")
  /\ (pc = "read") ~> (pc \in {"parse", "done"})
  /\ (pc = "parse") ~> (pc = "collect")
  /\ [](pc = "read" /\ readFn = "read_all_files"
          => \A i \in 1..N : i \notin Range(readLog) => ENABLED ReadPar(i))
  /\ [](pc = "parse" /\ parseFn = "parse_all_blobs"
          => \A k \in 1..Len(parts) : ~Finished(parts[k]) => ENABLED FoldLeaf(k))

\* a call on the pool for both steps ended after its two leaves, scanned out
\* of order, had been combined
C16_Witness ==
  /\ ReturnedOk /\ entry = "with_options" /\ options = 10 /\ N = 2
  /\ readLog = <<1, 2>> /\ scanLog = <<2, 1>>

====
